---- MODULE Spec2Model ----
(***************************************************************************)
(* A model of brother_ql_web.py: the module-level start-up code (command   *)
(* line, configuration file, DEBUG flag), the parameter resolver           *)
(* get_label_context, the image composer create_label_im and the two       *)
(* request handlers get_preview_image and print_text.                      *)
(*                                                                         *)
(* Python values are represented as follows.  A str is a sequence of       *)
(* one-character strings, so that rpartition, re.search, strip and split   *)
(* are computed on the characters.  The decoded form data `d` is a         *)
(* function whose domain is the set of the fields that were sent, so that  *)
(* d.get(k, default) is a domain test.  An exception is the name of its    *)
(* class.  None is the record PyNone.                                      *)
(***************************************************************************)
EXTENDS Integers, Sequences, FiniteSets, TLC

VARIABLES
    \* start-up (module level, lines 24-116 and 331-332)
    pcMain,        \* position of the module-level code
    configJson,    \* whether the file config.json exists
    fileConfig,    \* the content of the configuration files on disk
    args,          \* the parsed command line (argparse namespace)
    CONFIG,        \* the global CONFIG
    DEBUG,         \* the global DEBUG: "undefined", "True" or "False"
    \* one handler invocation per request (bottle callbacks)
    pc,            \* position of request r's handler
    flow,          \* "preview" or "print"
    form,          \* request.params.decode() of request r
    context,       \* local `context`
    im,            \* local `im`: the size of the image, <<width, height>>
    qlr,           \* local `qlr`: what the raster encoder was given
    be,            \* local `be`: the transport handle's state
    writes,        \* number of be.write calls of request r
    raised,        \* the exception the transport raised for request r
    result         \* what the handler returned (or the exception leaving it)

mainVars == <<pcMain, configJson, fileConfig, args, CONFIG, DEBUG>>
reqVars  == <<pc, flow, form, context, im, qlr, be, writes, raised, result>>
vars     == <<pcMain, configJson, fileConfig, args, CONFIG, DEBUG,
              pc, flow, form, context, im, qlr, be, writes, raised, result>>

----------------------------------------------------------------------------
(* Bounds of the model *)

\* number of requests whose handlers may be in flight together
NumRequests == 2
\* longest text (in characters) a request of the single-request specification sends
MaxTextLen == 2

Requests == 1 .. NumRequests

----------------------------------------------------------------------------
(* Python values *)

PyNone == [none |-> TRUE]
PyStr(s) == [none |-> FALSE, s |-> s]

\* d.get(k, default)
Get(d, k, default) == IF k \in DOMAIN d THEN d[k] ELSE default

Max(a, b) == IF a >= b THEN a ELSE b

\* int(x / y) for a float quotient: Python's int() truncates toward zero
TruncDiv(x, y) == IF x >= 0 THEN x \div y ELSE -((-x) \div y)

\* a // b with b > 0 (floor division, as in Python)
FloorDiv(a, b) == a \div b

\* str.strip(): leading and trailing blanks removed
RECURSIVE LStrip(_)
LStrip(s) == IF s # <<>> /\ Head(s) = " " THEN LStrip(Tail(s)) ELSE s
RECURSIVE RStrip(_)
RStrip(s) == IF s # <<>> /\ s[Len(s)] = " " THEN RStrip(SubSeq(s, 1, Len(s) - 1)) ELSE s
Strip(s) == RStrip(LStrip(s))

\* s.rpartition(sep)[0]: what precedes the last occurrence of sep, '' if none
RPartitionHead(s, sep) ==
    LET at == {i \in 1 .. Len(s) : s[i] = sep}
    IN  IF at = {} THEN <<>>
        ELSE LET last == CHOOSE i \in at : \A j \in at : j <= i
             IN  SubSeq(s, 1, last - 1)

\* \w of the regular expression (letters, digits, underscore)
WordChars == {"A", "B", "I", "R"}

\* re.search(r'\((\w*)\)', s): the leftmost "(", word characters, ")".
\* matched = FALSE stands for the None that re.search returns.
ReSearchStyle(s) ==
    LET ms == {p \in (1 .. Len(s)) \X (1 .. Len(s)) :
                  /\ p[1] < p[2]
                  /\ s[p[1]] = "("
                  /\ s[p[2]] = ")"
                  /\ \A k \in (p[1] + 1) .. (p[2] - 1) : s[k] \in WordChars}
    IN  IF ms = {} THEN [matched |-> FALSE]
        ELSE LET m == CHOOSE p \in ms : \A q \in ms : p[1] <= q[1]
             IN  [matched |-> TRUE, group1 |-> SubSeq(s, m[1] + 1, m[2] - 1)]

\* text.split('\n')
RECURSIVE Split(_)
Split(s) ==
    LET at == {i \in 1 .. Len(s) : s[i] = "\n"}
    IN  IF at = {} THEN <<s>>
        ELSE LET first == CHOOSE i \in at : \A j \in at : i <= j
             IN  <<SubSeq(s, 1, first - 1)>> \o Split(SubSeq(s, first + 1, Len(s)))

----------------------------------------------------------------------------
(* The collaborators' tables *)

ENDLESS_LABEL == 1
DIE_CUT_LABEL == 2
ROUND_DIE_CUT_LABEL == 3

\* brother_ql.devicedependent.label_type_specs, four of its entries
label_type_specs ==
    [ls \in {"62", "62x29", "29x90", "d24"} |->
        CASE ls = "62"    -> [kind |-> ENDLESS_LABEL,       dots_printable |-> <<696, 0>>]
          [] ls = "62x29" -> [kind |-> DIE_CUT_LABEL,       dots_printable |-> <<696, 271>>]
          [] ls = "29x90" -> [kind |-> DIE_CUT_LABEL,       dots_printable |-> <<306, 991>>]
          [] ls = "d24"   -> [kind |-> ROUND_DIE_CUT_LABEL, dots_printable |-> <<236, 236>>]]

\* FONTS = get_fonts(): family -> style -> path; one family "A", styles "B", "R"
FONTS ==
    [family \in {<<"A">>} |->
        [style \in {<<"B">>, <<"R">>} |->
            IF style = <<"B">> THEN "/fonts/a-bold.ttf" ELSE "/fonts/a-regular.ttf"]]

\* draw.multiline_textsize(text, font=im_font) of PIL: the widest line by the
\* number of lines, with PIL's 4 pixels between two lines.  A glyph is taken
\* font_size wide and a line font_size high.
LongestLine(lines) ==
    LET lens == {Len(lines[i]) : i \in 1 .. Len(lines)}
    IN  CHOOSE n \in lens : \A m \in lens : m <= n

multiline_textsize(lines, font_size) ==
    << font_size * LongestLine(lines),
       font_size * Len(lines) + 4 * (Len(lines) - 1) >>

----------------------------------------------------------------------------
(* get_label_context, lines 131-186 *)

\* lines 155-158: int(context['font_size'] * (float(percentage) / 100.)).
\* For the font sizes and percentages enumerated below the double product
\* truncates to the same integer as the exact quotient.
margin_px(font_size, percentage) == TruncDiv(font_size * percentage, 100)

\* lines 160-169.  The names are always str here (an rpartition result and a
\* regular-expression group), so the `is None` branch of line 162 is not taken.
get_font_path(font_family_name, font_style_name) ==
    IF /\ font_family_name \in DOMAIN FONTS
       /\ font_style_name \in DOMAIN FONTS[font_family_name]
    THEN [exc |-> "none", font_path |-> FONTS[font_family_name][font_style_name]]
    ELSE [exc |-> "LookupError", msg |-> "Could not find the font & style"]

\* lines 173-178
get_label_dimensions(label_size) ==
    IF label_size \in DOMAIN label_type_specs
    THEN [exc |-> "none", dims |-> label_type_specs[label_size].dots_printable]
    ELSE [exc |-> "LookupError", msg |-> "Unknown label_size"]

\* lines 180-184: the long side first, then the orientation's swap
oriented_dimensions(dims, orientation) ==
    LET width0  == dims[1]
        height0 == dims[2]
        width1  == IF height0 > width0 THEN height0 ELSE width0
        height1 == IF height0 > width0 THEN width0 ELSE height0
    IN  IF orientation = "rotated" THEN <<height1, width1>> ELSE <<width1, height1>>

\* the whole function: the context, or the exception that leaves it
get_label_context(d) ==
    IF "font_family" \notin DOMAIN d
    THEN \* line 136: None.rpartition
         [exc |-> "AttributeError", msg |-> "'NoneType' object has no attribute 'rpartition'"]
    ELSE
    LET font_family == Strip(RPartitionHead(d["font_family"], "("))
        match       == ReSearchStyle(d["font_family"])
    IN
    IF ~match.matched
    THEN \* line 137: None[1]
         [exc |-> "TypeError", msg |-> "'NoneType' object is not subscriptable"]
    ELSE
    LET font_style  == match.group1
        font_size   == Get(d, "font_size", 100)
        label_size  == Get(d, "label_size", "62")
        orientation == Get(d, "orientation", "standard")
    IN
    IF label_size \notin DOMAIN label_type_specs
    THEN \* line 145: label_type_specs[...] of an unknown key
         [exc |-> "KeyError", msg |-> "label_size"]
    ELSE
    LET path == get_font_path(font_family, font_style)
        dims == get_label_dimensions(label_size)
    IN
    IF path.exc # "none" THEN path
    ELSE IF dims.exc # "none" THEN dims
    ELSE
    LET wh == oriented_dimensions(dims.dims, orientation)
    IN  [exc |-> "none",
         context |->
           [text          |-> IF "text" \in DOMAIN d THEN PyStr(d["text"]) ELSE PyNone,
            font_size     |-> font_size,
            font_family   |-> font_family,
            font_style    |-> font_style,
            label_size    |-> label_size,
            kind          |-> label_type_specs[label_size].kind,
            margin        |-> Get(d, "margin", 10),
            threshold     |-> Get(d, "threshold", 70),
            align         |-> Get(d, "align", "center"),
            orientation   |-> orientation,
            margin_top    |-> margin_px(font_size, Get(d, "margin_top", 24)),
            margin_bottom |-> margin_px(font_size, Get(d, "margin_bottom", 45)),
            margin_left   |-> margin_px(font_size, Get(d, "margin_left", 35)),
            margin_right  |-> margin_px(font_size, Get(d, "margin_right", 35)),
            font_path     |-> path.font_path,
            width         |-> wh[1],
            height        |-> wh[2]]]

\* an `except LookupError` clause catches KeyError too (its subclass)
IsLookupError(exc) == exc \in {"LookupError", "KeyError"}

----------------------------------------------------------------------------
(* create_label_im, lines 190-228 *)

\* lines 197-201: an empty line becomes one blank
normalize_lines(lines) ==
    [i \in 1 .. Len(lines) |-> IF lines[i] = <<>> THEN <<" ">> ELSE lines[i]]

\* canvas_size with line 208 left out (the rotated branch without its test of
\* the label kind): a fault CanvasSizeRule has to reject
canvas_size_any_kind(kwargs, textsize) ==
    IF kwargs.orientation = "standard" /\ kwargs.kind = ENDLESS_LABEL
    THEN <<kwargs.width, textsize[2] + kwargs.margin_top + kwargs.margin_bottom>>
    ELSE IF kwargs.orientation = "rotated"
    THEN <<textsize[1] + kwargs.margin_left + kwargs.margin_right, kwargs.height>>
    ELSE <<kwargs.width, kwargs.height>>

\* lines 203-209: the size of the canvas
canvas_size(kwargs, textsize) ==
    IF kwargs.orientation = "standard" /\ kwargs.kind = ENDLESS_LABEL
    THEN <<kwargs.width, textsize[2] + kwargs.margin_top + kwargs.margin_bottom>>
    ELSE IF kwargs.orientation = "rotated" /\ kwargs.kind = ENDLESS_LABEL
    THEN <<textsize[1] + kwargs.margin_left + kwargs.margin_right, kwargs.height>>
    ELSE <<kwargs.width, kwargs.height>>

\* lines 212-226: where the text is drawn (for the two known orientations)
text_offset(kwargs, textsize, size) ==
    LET width     == size[1]
        height    == size[2]
        die_cut   == kwargs.kind \in {DIE_CUT_LABEL, ROUND_DIE_CUT_LABEL}
        centred_v == FloorDiv(height - textsize[2], 2)
                       + FloorDiv(kwargs.margin_top - kwargs.margin_bottom, 2)
        centred_h == Max(FloorDiv(width - textsize[1], 2), 0)
    IN  IF kwargs.orientation = "standard"
        THEN <<centred_h, IF die_cut THEN centred_v ELSE kwargs.margin_top>>
        ELSE <<IF die_cut THEN centred_h ELSE kwargs.margin_left, centred_v>>

\* the whole function: the image, or the exception that leaves it
create_label_im(kwargs) ==
    IF kwargs.text.none
    THEN \* line 198: None.split
         [exc |-> "AttributeError", msg |-> "'NoneType' object has no attribute 'split'"]
    ELSE
    LET lines    == normalize_lines(Split(kwargs.text.s))
        textsize == multiline_textsize(lines, kwargs.font_size)
        size     == canvas_size(kwargs, textsize)
    IN  IF kwargs.orientation \notin {"standard", "rotated"}
        THEN \* line 226: horizontal_offset was never assigned
             [exc |-> "UnboundLocalError", msg |-> "horizontal_offset"]
        ELSE [exc |-> "none",
              im  |-> [size     |-> size,
                       textsize |-> textsize,
                       offset   |-> text_offset(kwargs, textsize, size)]]

----------------------------------------------------------------------------
(* Start-up: the module-level code, lines 24-68 and 331-332 *)

\* default=False of every argparse parameter
NotSet == "False"

\* `if args.x:`
Truthy(x) == x # NotSet

\* what the command line can carry; --loglevel is converted by
\* getattr(logging, x.upper()) to the level's number (10 is logging.DEBUG)
ArgValues ==
    [printer             : {NotSet, "tcp://192.168.0.23:9100"},
     port                : {NotSet, "8080"},
     loglevel            : {NotSet, "10", "30"},
     font_folder         : {NotSet, "/usr/share/fonts/extra"},
     default_label_size  : {NotSet, "29x90"},
     default_orientation : {NotSet, "rotated"},
     model               : {NotSet, "QL-710W"}]

NoArgs ==
    [printer |-> NotSet, port |-> NotSet, loglevel |-> NotSet, font_folder |-> NotSet,
     default_label_size |-> NotSet, default_orientation |-> NotSet, model |-> NotSet]

\* what json.load returns for the configuration file that is opened
ConfigFile(loglevel) ==
    [PRINTER |-> [PRINTER |-> "file:///dev/usb/lp0", MODEL |-> "QL-500"],
     SERVER  |-> [PORT |-> "8013", LOGLEVEL |-> loglevel, ADDITIONAL_FONT_FOLDER |-> NotSet],
     LABEL   |-> [DEFAULT_SIZE |-> "62", DEFAULT_ORIENTATION |-> "standard"]]

ConfigFiles == {ConfigFile(l) : l \in {"DEBUG", "WARNING"}}

NoConfig == [unset |-> TRUE]

\* lines 44-68, the body of the `except FileNotFoundError` clause
cli_overrides(config, a) ==
    [PRINTER |-> [PRINTER |-> IF Truthy(a.printer) THEN a.printer ELSE config.PRINTER.PRINTER,
                  MODEL   |-> IF Truthy(a.model) THEN a.model ELSE config.PRINTER.MODEL],
     SERVER  |-> [PORT     |-> IF Truthy(a.port) THEN a.port ELSE config.SERVER.PORT,
                  LOGLEVEL |-> IF Truthy(a.loglevel) THEN a.loglevel ELSE config.SERVER.LOGLEVEL,
                  ADDITIONAL_FONT_FOLDER |->
                      IF Truthy(a.font_folder) THEN a.font_folder
                      ELSE config.SERVER.ADDITIONAL_FONT_FOLDER],
     LABEL   |-> [DEFAULT_SIZE |->
                      IF Truthy(a.default_label_size) THEN a.default_label_size
                      ELSE config.LABEL.DEFAULT_SIZE,
                  DEFAULT_ORIENTATION |->
                      IF Truthy(a.default_orientation) THEN a.default_orientation
                      ELSE config.LABEL.DEFAULT_ORIENTATION]]

\* lines 53-56
debug_flag(config) == IF config.SERVER.LOGLEVEL = "DEBUG" THEN "True" ELSE "False"

\* lines 35-68: config.json is opened; only when it is missing does the except
\* clause run, and the overrides and the assignment of DEBUG are inside it
LoadConfig ==
    /\ pcMain = "load"
    /\ IF configJson
       THEN /\ CONFIG' = fileConfig
            /\ DEBUG' = DEBUG
       ELSE /\ CONFIG' = cli_overrides(fileConfig, args)
            /\ DEBUG' = debug_flag(cli_overrides(fileConfig, args))
    /\ pcMain' = "loaded"
    /\ UNCHANGED <<configJson, fileConfig, args>>
    /\ UNCHANGED reqVars

\* line 332: run(host=..., port=..., debug=DEBUG) evaluates DEBUG
RunServer ==
    /\ pcMain = "loaded"
    /\ pcMain' = IF DEBUG = "undefined" THEN "NameError" ELSE "serving"
    /\ UNCHANGED <<configJson, fileConfig, args, CONFIG, DEBUG>>
    /\ UNCHANGED reqVars

----------------------------------------------------------------------------
(* The requests *)

Absent == [present |-> FALSE]
Sent(v) == [present |-> TRUE, v |-> v]

\* the decoded form data: the fields that were sent, and nothing for the others
MkForm(o) == [k \in {f \in DOMAIN o : o[f].present} |-> o[k].v]

FormsOf(texts, fonts, sizes, orientations, fontsizes, topmargins, margins) ==
    {MkForm(o) : o \in [text : texts, font_family : fonts, label_size : sizes,
                        orientation : orientations, font_size : fontsizes,
                        margin_top : topmargins, margin_bottom : margins,
                        margin_left : margins, margin_right : margins]}

\* every text of at most n characters over the letter A and the line break
RECURSIVE TextsUpTo(_)
TextsUpTo(n) ==
    IF n = 0 THEN {<<>>}
    ELSE TextsUpTo(n - 1) \cup
         {Append(t, c) : t \in {u \in TextsUpTo(n - 1) : Len(u) = n - 1}, c \in {"A", "\n"}}

FontOk        == <<"A", " ", "(", "B", ")">>
FontNoStyle   == <<"A", " ", "(", "I", ")">>
FontBare      == <<"A">>
FontUnclosed  == <<"A", " ", "(", "B">>
FontTwoWords  == <<"A", " ", "(", "B", " ", "I", ")">>
FontEmpty     == <<"A", " ", "(", ")">>

\* the requests of the request-handling specification
FlowForms ==
    FormsOf({Absent, Sent(<<"A">>)},
            {Sent(FontOk), Sent(FontBare)},
            {Absent, Sent("unknown99")},
            {Absent}, {Absent}, {Absent}, {Absent})

\* the requests of the single-request specification
WideForms ==
    FormsOf({Absent} \cup {Sent(t) : t \in TextsUpTo(MaxTextLen)},
            {Absent, Sent(FontOk), Sent(FontNoStyle), Sent(FontBare),
             Sent(FontUnclosed), Sent(FontTwoWords), Sent(FontEmpty)},
            {Absent, Sent("62x29"), Sent("29x90"), Sent("d24"), Sent("unknown99")},
            {Absent, Sent("rotated"), Sent("sideways")},
            {Absent, Sent(10)},
            {Absent, Sent(38), Sent(-10)},
            {Absent, Sent(38)})

Unset == [unset |-> TRUE]
NoForm == [k \in {} |-> Unset]
NoResult == [kind |-> "none"]

\* an exception that leaves the handler (bottle answers it with a 500 page)
Uncaught(e) == [kind |-> "exception", exc |-> e.exc, msg |-> e.msg]
\* a dictionary the handler returns (bottle sends it as JSON)
Json(return_dict) == [kind |-> "json", body |-> return_dict]

Finish(r, res) ==
    /\ pc' = [pc EXCEPT ![r] = "done"]
    /\ result' = [result EXCEPT ![r] = res]

\* a request arrives and bottle calls its handler
ReceiveRequest(r, forms, flows) ==
    /\ pcMain = "serving"
    /\ pc[r] = "idle"
    /\ \E f \in flows, d \in forms :
          /\ flow' = [flow EXCEPT ![r] = f]
          /\ form' = [form EXCEPT ![r] = d]
    /\ pc' = [pc EXCEPT ![r] = "resolve"]
    /\ UNCHANGED <<context, im, qlr, be, writes, raised, result>>
    /\ UNCHANGED mainVars

(* get_preview_image, lines 259-271 *)

\* line 262
PreviewResolve(r) ==
    /\ pc[r] = "resolve" /\ flow[r] = "preview"
    /\ LET c == get_label_context(form[r])
       IN  IF c.exc # "none"
           THEN Finish(r, Uncaught(c)) /\ UNCHANGED context
           ELSE /\ context' = [context EXCEPT ![r] = c.context]
                /\ pc' = [pc EXCEPT ![r] = "render"]
                /\ UNCHANGED result
    /\ UNCHANGED <<flow, form, im, qlr, be, writes, raised>>
    /\ UNCHANGED mainVars

\* lines 263-271
PreviewRender(r) ==
    /\ pc[r] = "render" /\ flow[r] = "preview"
    /\ LET i == create_label_im(context[r])
       IN  IF i.exc # "none"
           THEN Finish(r, Uncaught(i)) /\ UNCHANGED im
           ELSE /\ im' = [im EXCEPT ![r] = i.im]
                /\ \E return_format \in {"png", "base64"} :
                      Finish(r, [kind |-> "image",
                                 content_type |-> IF return_format = "base64"
                                                  THEN "text/plain" ELSE "image/png",
                                 size |-> i.im.size])
    /\ UNCHANGED <<flow, form, context, qlr, be, writes, raised>>
    /\ UNCHANGED mainVars

(* print_text, lines 275-324 *)

\* lines 291-293: the handler of `except LookupError as e` reads e.msg, an
\* attribute no LookupError or KeyError has, so an AttributeError leaves it
lookup_error_result(return_dict, e) ==
    Uncaught([exc |-> "AttributeError",
              msg |-> "'LookupError' object has no attribute 'msg'"])

\* text_is_none with the test of line 295 left out: a fault
\* MissingTextShortCircuits has to reject
text_is_never_none(ctx) == FALSE

\* line 295: context['text'] is None
text_is_none(ctx) == ctx.text.none

\* lines 296-297
missing_text_result(return_dict) ==
    Json([success |-> return_dict.success,
          error   |-> "Please provide the text for the label"])

\* lines 302-305
rotate_of(ctx) ==
    IF ctx.kind = ENDLESS_LABEL
    THEN (IF ctx.orientation = "standard" THEN "0" ELSE "90")
    ELSE "auto"

\* transport_error_result with the return of line 319 left out, so that line
\* 321 follows: a fault TransportErrorReportedOnce has to reject
transport_error_falls_through(return_dict, e) ==
    Json([success |-> TRUE, message |-> e])

\* lines 316-319: return_dict['message'] = str(e); return return_dict
transport_error_result(return_dict, e) ==
    Json([success |-> return_dict.success, message |-> e])

\* lines 321-324
success_result(return_dict, debug) ==
    IF debug = "True"
    THEN Json([success |-> TRUE, data |-> "str(qlr.data)"])
    ELSE Json([success |-> TRUE])

\* the exceptions the transport backend raises
OpenErrors == {"[Errno 111] Connection refused"}
WriteErrors == {"[Errno 32] Broken pipe"}

\* lines 287-297
PrintResolve(r) ==
    /\ pc[r] = "resolve" /\ flow[r] = "print"
    /\ LET return_dict == [success |-> FALSE]
           c == get_label_context(form[r])
       IN  IF c.exc # "none"
           THEN /\ IF IsLookupError(c.exc)
                   THEN Finish(r, lookup_error_result(return_dict, c))
                   ELSE Finish(r, Uncaught(c))
                /\ UNCHANGED context
           ELSE /\ context' = [context EXCEPT ![r] = c.context]
                /\ IF text_is_none(c.context)
                   THEN Finish(r, missing_text_result(return_dict))
                   ELSE /\ pc' = [pc EXCEPT ![r] = "render"]
                        /\ UNCHANGED result
    /\ UNCHANGED <<flow, form, im, qlr, be, writes, raised>>
    /\ UNCHANGED mainVars

\* lines 299-300
PrintRender(r) ==
    /\ pc[r] = "render" /\ flow[r] = "print"
    /\ LET i == create_label_im(context[r])
       IN  IF i.exc # "none"
           THEN Finish(r, Uncaught(i)) /\ UNCHANGED im
           ELSE /\ im' = [im EXCEPT ![r] = i.im]
                /\ pc' = [pc EXCEPT ![r] = "encode"]
                /\ UNCHANGED result
    /\ UNCHANGED <<flow, form, context, qlr, be, writes, raised>>
    /\ UNCHANGED mainVars

\* lines 302-310 and, in debug mode, 321-324: the raster encoder is given the
\* image; the transport is used only when DEBUG is false
PrintEncode(r) ==
    /\ pc[r] = "encode"
    /\ qlr' = [qlr EXCEPT ![r] =
                 [model      |-> CONFIG.PRINTER.MODEL,
                  image      |-> im[r].size,
                  label_size |-> context[r].label_size,
                  threshold  |-> context[r].threshold,
                  cut        |-> TRUE,
                  rotate     |-> rotate_of(context[r])]]
    /\ IF DEBUG = "True"
       THEN Finish(r, success_result([success |-> FALSE], DEBUG))
       ELSE /\ pc' = [pc EXCEPT ![r] = "open"]
            /\ UNCHANGED result
    /\ UNCHANGED <<flow, form, context, im, be, writes, raised>>
    /\ UNCHANGED mainVars

\* line 308: create_label raises (it is outside every try)
PrintEncodeRaises(r) ==
    /\ pc[r] = "encode"
    /\ Finish(r, Uncaught([exc |-> "ValueError", msg |-> "create_label"]))
    /\ UNCHANGED <<flow, form, context, im, qlr, be, writes, raised>>
    /\ UNCHANGED mainVars

\* line 312: be = BACKEND_CLASS(CONFIG['PRINTER']['PRINTER'])
TransportOpen(r) ==
    /\ pc[r] = "open"
    /\ be' = [be EXCEPT ![r] = "open"]
    /\ pc' = [pc EXCEPT ![r] = "write"]
    /\ UNCHANGED <<flow, form, context, im, qlr, writes, raised, result>>
    /\ UNCHANGED mainVars

\* line 312 raises: lines 316-319
TransportOpenRaises(r) ==
    /\ pc[r] = "open"
    /\ \E e \in OpenErrors :
          /\ raised' = [raised EXCEPT ![r] = [at |-> "open", text |-> e]]
          /\ Finish(r, transport_error_result([success |-> FALSE], e))
    /\ UNCHANGED <<flow, form, context, im, qlr, be, writes>>
    /\ UNCHANGED mainVars

\* line 313: be.write(qlr.data)
TransportWrite(r) ==
    /\ pc[r] = "write"
    /\ writes' = [writes EXCEPT ![r] = @ + 1]
    /\ pc' = [pc EXCEPT ![r] = "dispose"]
    /\ UNCHANGED <<flow, form, context, im, qlr, be, raised, result>>
    /\ UNCHANGED mainVars

\* line 313 raises: lines 316-319; be.dispose() of line 314 is skipped
TransportWriteRaises(r) ==
    /\ pc[r] = "write"
    /\ writes' = [writes EXCEPT ![r] = @ + 1]
    /\ \E e \in WriteErrors :
          /\ raised' = [raised EXCEPT ![r] = [at |-> "write", text |-> e]]
          /\ Finish(r, transport_error_result([success |-> FALSE], e))
    /\ UNCHANGED <<flow, form, context, im, qlr, be>>
    /\ UNCHANGED mainVars

\* lines 314-315 and 321-324
TransportDispose(r) ==
    /\ pc[r] = "dispose"
    /\ be' = [be EXCEPT ![r] = "disposed"]
    /\ Finish(r, success_result([success |-> FALSE], DEBUG))
    /\ UNCHANGED <<flow, form, context, im, qlr, writes, raised>>
    /\ UNCHANGED mainVars

\* line 314 raises: lines 316-319
TransportDisposeRaises(r) ==
    /\ pc[r] = "dispose"
    /\ \E e \in WriteErrors :
          /\ raised' = [raised EXCEPT ![r] = [at |-> "dispose", text |-> e]]
          /\ Finish(r, transport_error_result([success |-> FALSE], e))
    /\ UNCHANGED <<flow, form, context, im, qlr, be, writes>>
    /\ UNCHANGED mainVars

----------------------------------------------------------------------------
(* The specifications *)

NoRaise == [at |-> "none"]

InitRequests ==
    /\ pc = [r \in Requests |-> "idle"]
    /\ flow = [r \in Requests |-> "none"]
    /\ form = [r \in Requests |-> NoForm]
    /\ context = [r \in Requests |-> Unset]
    /\ im = [r \in Requests |-> Unset]
    /\ qlr = [r \in Requests |-> Unset]
    /\ be = [r \in Requests |-> "none"]
    /\ writes = [r \in Requests |-> 0]
    /\ raised = [r \in Requests |-> NoRaise]
    /\ result = [r \in Requests |-> NoResult]

InitMain(argsets, exists, files) ==
    /\ pcMain = "load"
    /\ configJson \in exists
    /\ fileConfig \in files
    /\ args \in argsets
    /\ CONFIG = NoConfig
    /\ DEBUG = "undefined"

\* The handler of request r takes a step.  bottle calls a handler once per
\* request and the module holds no lock: when the WSGI server runs handlers
\* on several threads, their steps interleave.
Handle(r) ==
    \/ PreviewResolve(r)
    \/ PreviewRender(r)
    \/ PrintResolve(r)
    \/ PrintRender(r)
    \/ PrintEncode(r)
    \/ PrintEncodeRaises(r)
    \/ TransportOpen(r)
    \/ TransportOpenRaises(r)
    \/ TransportWrite(r)
    \/ TransportWriteRaises(r)
    \/ TransportDispose(r)
    \/ TransportDisposeRaises(r)

\* Request handling: the service is started without command-line parameters
\* and the handlers of NumRequests requests run interleaved.
Init == InitMain({NoArgs}, BOOLEAN, ConfigFiles) /\ InitRequests

Next ==
    \/ LoadConfig
    \/ RunServer
    \/ \E r \in Requests :
          \/ ReceiveRequest(r, FlowForms, {"preview", "print"})
          \/ Handle(r)

Spec == Init /\ [][Next]_vars

\* Start-up alone, under every command line.
InitStartup == InitMain(ArgValues, BOOLEAN, ConfigFiles) /\ InitRequests

NextStartup == LoadConfig \/ RunServer

SpecStartup == InitStartup /\ [][NextStartup]_vars

\* One request at a time, drawn from WideForms: the resolver, the composer and
\* both handlers on every combination of the fields.
InitSingle == InitMain({NoArgs}, {FALSE}, {ConfigFile("WARNING")}) /\ InitRequests

NextSingle ==
    \/ LoadConfig
    \/ RunServer
    \/ ReceiveRequest(1, WideForms, {"preview", "print"})
    \/ Handle(1)

SpecSingle == InitSingle /\ [][NextSingle]_vars

----------------------------------------------------------------------------
(* What the claims speak of, stated on the request as it was sent *)

Min(a, b) == IF a <= b THEN a ELSE b

\* the font field is "<Family> (<Style>)" for a pair of the catalog
FontInCatalog(d) ==
    /\ "font_family" \in DOMAIN d
    /\ \E family \in DOMAIN FONTS : \E style \in DOMAIN FONTS[family] :
          d["font_family"] = family \o <<" ", "(">> \o style \o <<")">>

KnownLabelSize(d) == Get(d, "label_size", "62") \in DOMAIN label_type_specs

KnownOrientation(d) == Get(d, "orientation", "standard") \in {"standard", "rotated"}

TextAbsent(d) == "text" \notin DOMAIN d

Received(r) == pc[r] # "idle"
Returned(r) == pc[r] = "done"

StructuredFailure(res) == res.kind = "json" /\ res.body.success = FALSE

\* nothing was rendered, encoded or sent for request r
NothingDone(r) == im[r] = Unset /\ qlr[r] = Unset /\ be[r] = "none" /\ writes[r] = 0

\* C1: a transport handle opened for a request has been disposed of when the
\* request returns, on every exit path (also when write raises).
HandleReleasedOnReturn ==
    \A r \in Requests : Returned(r) /\ be[r] # "none" => be[r] = "disposed"

UnknownLabelSizeFailsStructured ==
    \A r \in Requests :
        Returned(r) /\ FontInCatalog(form[r]) /\ ~KnownLabelSize(form[r])
        => /\ StructuredFailure(result[r])
           /\ "error" \in DOMAIN result[r].body
           /\ NothingDone(r)

\* C4: a print request without text, its other fields valid, never reaches the
\* composer, the encoder or the transport, and returns {success: false} with
\* the missing-text error.
MissingTextShortCircuits ==
    \A r \in Requests :
        /\ Received(r) /\ flow[r] = "print"
        /\ TextAbsent(form[r]) /\ FontInCatalog(form[r]) /\ KnownLabelSize(form[r])
        => /\ pc[r] \in {"resolve", "done"}
           /\ NothingDone(r)
           /\ Returned(r) =>
                 result[r] = Json([success |-> FALSE,
                                   error   |-> "Please provide the text for the label"])

MissingTextWitness ==
    \E r \in Requests :
        /\ Returned(r) /\ flow[r] = "print"
        /\ TextAbsent(form[r]) /\ FontInCatalog(form[r]) /\ KnownLabelSize(form[r])
        /\ StructuredFailure(result[r])

\* C5: with a known label size, the resolver fails with the font lookup error
\* when the font field is malformed or names a pair the catalog lacks, and
\* resolves when the pair is in the catalog.  (Read on the preview flow, which
\* passes the resolver's exception on unchanged.)
FontResolution ==
    \A r \in Requests :
        /\ flow[r] = "preview" /\ pc[r] \in {"render", "done"}
        /\ "font_family" \in DOMAIN form[r] /\ KnownLabelSize(form[r])
        => IF FontInCatalog(form[r])
           THEN context[r] # Unset
           ELSE /\ context[r] = Unset
                /\ result[r].kind = "exception"
                /\ result[r].exc = "LookupError"
                /\ result[r].msg = "Could not find the font & style"

\* C6: a preview request without text, its other fields valid, returns an
\* image.
PreviewWithoutTextSucceeds ==
    \A r \in Requests :
        /\ Returned(r) /\ flow[r] = "preview"
        /\ TextAbsent(form[r]) /\ FontInCatalog(form[r])
        /\ KnownLabelSize(form[r]) /\ KnownOrientation(form[r])
        => result[r].kind = "image"

\* C7: a transport exception is answered by {success: false, message: its
\* text}; a request writes at most once; a request whose write raised never
\* returns success.
TransportErrorReportedOnce ==
    \A r \in Requests :
        /\ writes[r] <= 1
        /\ raised[r].at # "none" =>
              /\ Returned(r)
              /\ result[r] = Json([success |-> FALSE, message |-> raised[r].text])
        /\ Returned(r) /\ result[r].kind = "json" /\ result[r].body.success =>
              raised[r].at = "none"

TransportErrorWitness ==
    \E r \in Requests :
        Returned(r) /\ raised[r].at = "write" /\ writes[r] = 1 /\ be[r] = "open"

\* C8: the final canvas.  Endless and standard: canonical width, height =
\* text height + top + bottom margin.  Endless and rotated: width = text width
\* + left + right margin, canonical height.  Die-cut kinds: the canonical
\* (orientation-swapped) dimensions whatever the text.  A larger text extent
\* never gives a smaller canvas.
CanvasSizeRule ==
    \A r \in Requests :
        im[r] # Unset =>
        LET d         == form[r]
            spec      == label_type_specs[Get(d, "label_size", "62")]
            long      == Max(spec.dots_printable[1], spec.dots_printable[2])
            short     == Min(spec.dots_printable[1], spec.dots_printable[2])
            rotated   == Get(d, "orientation", "standard") = "rotated"
            canonical == IF rotated THEN <<short, long>> ELSE <<long, short>>
            c         == context[r]
            tw        == im[r].textsize[1]
            th        == im[r].textsize[2]
        IN  /\ im[r].size =
                 IF spec.kind = ENDLESS_LABEL
                 THEN IF rotated
                      THEN <<tw + c.margin_left + c.margin_right, canonical[2]>>
                      ELSE <<canonical[1], th + c.margin_top + c.margin_bottom>>
                 ELSE canonical
            /\ \A dw, dh \in 0 .. 1 :
                  LET larger == canvas_size(c, <<tw + dw, th + dh>>)
                  IN  /\ larger[1] >= im[r].size[1]
                      /\ larger[2] >= im[r].size[2]
                      /\ spec.kind # ENDLESS_LABEL => larger = im[r].size

CanvasSizeWitness ==
    \E r \in Requests :
        /\ Returned(r) /\ result[r].kind = "image"
        /\ context[r].kind = ENDLESS_LABEL /\ context[r].orientation = "rotated"
        /\ Len(Split(context[r].text.s)) = 2
        /\ im[r].size # <<context[r].width, context[r].height>>

\* round(n / 100), halves upward
RoundHundredth(n) == (2 * n + 100) \div 200

\* C9: each of the four pixel margins is round(percentage / 100 * font size),
\* the nearest integer, and is not negative.
MarginsRounded ==
    \A r \in Requests :
        context[r] # Unset =>
        LET d  == form[r]
            fs == Get(d, "font_size", 100)
        IN  /\ context[r].margin_top    = RoundHundredth(Get(d, "margin_top", 24) * fs)
            /\ context[r].margin_bottom = RoundHundredth(Get(d, "margin_bottom", 45) * fs)
            /\ context[r].margin_left   = RoundHundredth(Get(d, "margin_left", 35) * fs)
            /\ context[r].margin_right  = RoundHundredth(Get(d, "margin_right", 35) * fs)
            /\ context[r].margin_top >= 0 /\ context[r].margin_bottom >= 0
            /\ context[r].margin_left >= 0 /\ context[r].margin_right >= 0

\* the level is DEBUG, as the file writes it or as --loglevel converts it
IsDebugLevel(l) == l \in {"DEBUG", "10"}

\* C10: once the configuration is loaded, whichever file it came from, every
\* command-line parameter that is set has replaced the configuration value,
\* and DEBUG is defined and true exactly when the log level is DEBUG.
CliOverridesAndDebugDefined ==
    pcMain \in {"loaded", "serving", "NameError"} =>
        /\ Truthy(args.printer) => CONFIG.PRINTER.PRINTER = args.printer
        /\ Truthy(args.model) => CONFIG.PRINTER.MODEL = args.model
        /\ Truthy(args.port) => CONFIG.SERVER.PORT = args.port
        /\ Truthy(args.loglevel) => CONFIG.SERVER.LOGLEVEL = args.loglevel
        /\ Truthy(args.font_folder) => CONFIG.SERVER.ADDITIONAL_FONT_FOLDER = args.font_folder
        /\ Truthy(args.default_label_size) => CONFIG.LABEL.DEFAULT_SIZE = args.default_label_size
        /\ Truthy(args.default_orientation) =>
              CONFIG.LABEL.DEFAULT_ORIENTATION = args.default_orientation
        /\ DEBUG # "undefined"
        /\ DEBUG = "True" <=> IsDebugLevel(CONFIG.SERVER.LOGLEVEL)

====
